---- MODULE Spec2Model ----
(***************************************************************************)
(* Model of examples/nvme/hotplug/hotplug.c: a single-threaded polling     *)
(* loop that keeps g_queue_depth reads outstanding on every registered     *)
(* NVMe controller, follows hot-attach and hot-remove events delivered by  *)
(* spdk_nvme_probe(), and drains every device when the run time is over.   *)
(*                                                                         *)
(* The NVMe driver and the task mempool are outside the file.  They are    *)
(* modelled by what the file can observe of them: the return codes of      *)
(* their calls and the callbacks they deliver, chosen with \E.             *)
(***************************************************************************)
EXTENDS Integers, Sequences, FiniteSets

\* ---- program constants ----
g_io_size_bytes == 4096
g_queue_depth == 4
PoolSize == 8192

\* ---- bounds of the model ----
MaxPoll == 1        \* completions one spdk_nvme_qpair_process_completions call delivers
MaxEvents == 2      \* attach/remove callbacks one spdk_nvme_probe call delivers
RunTicks == 1       \* g_time_in_sec * g_tsc_rate, in ticks read by the loop

\* main, line 455: ticks per second. The loop's clock is read in whole
\* seconds here, so one tick is one second.
g_tsc_rate == 1

\* The controllers the transport can report (struct spdk_nvme_ctrlr handles).
Ctrlrs == {"c1", "c2"}
\* Addresses calloc can return for a struct dev_ctx; a freed one is reused.
DevIds == {1, 2}

\* Return codes of spdk_nvme_ns_cmd_read and of spdk_nvme_probe.
ReadRcs == {0, -12}
ProbeRcs == {0, -1}

\* What spdk_nvme_ctrlr_get_ns(ctrlr, 1) and the spdk_nvme_ns_* getters can
\* report for a freshly attached controller.
Namespaces ==
  { [present |-> FALSE, active |-> FALSE, size |-> 0,     sector |-> 512 ],
    [present |-> TRUE,  active |-> FALSE, size |-> 8192,  sector |-> 512 ],
    [present |-> TRUE,  active |-> TRUE,  size |-> 2048,  sector |-> 512 ],
    [present |-> TRUE,  active |-> TRUE,  size |-> 16384, sector |-> 8192],
    [present |-> TRUE,  active |-> TRUE,  size |-> 4096,  sector |-> 512 ],
    [present |-> TRUE,  active |-> TRUE,  size |-> 10240, sector |-> 4096] }

VARIABLES
  g_devs,      \* TAILQ g_devs: the sequence of struct dev_ctx, head first
  task_pool,   \* number of free tasks in the mempool
  nvme,        \* per descriptor address, the driver's side of its qpair: read
               \* calls made, reads accepted, completions delivered (each for a
               \* task whose task->dev is that address)
  qpairs,      \* descriptor addresses holding an allocated I/O qpair
  attached,    \* controllers the driver holds attached (attach_cb given, not detached)
  last_read,   \* the spdk_nvme_ns_cmd_read call the latest step ended with
               \* (NoRead when the step made none)
  pc,          \* position of main()/io_loop()
  cur,         \* the TAILQ_FOREACH cursor of io_loop's service loop (index in g_devs)
  queue_depth, \* submit_io's local countdown
  polled,      \* completions delivered so far by the current check_io call
  events,      \* callbacks delivered so far by the current spdk_nvme_probe call
  now,         \* latest spdk_get_ticks() value read by io_loop, relative to its start
  next_stats_tsc, \* io_loop's local: the time after which the next report is due
  main_rc      \* exit code of main(), -1 while running

vars == <<g_devs, task_pool, nvme, qpairs, attached, last_read, pc, cur,
          queue_depth, polled, events, now, next_stats_tsc, main_rc>>

NoNs == [present |-> FALSE, active |-> FALSE, size |-> 0, sector |-> 512]
NoRead == [dev |-> 0, ns |-> NoNs, lba |-> 0, lba_count |-> 0]
NewQpair == [calls |-> 0, submitted |-> 0, completed |-> 0]

\* ---- helpers over the registry ----
Range(s) == {s[i] : i \in 1..Len(s)}
DevIdsOf(devs) == {devs[i].id : i \in 1..Len(devs)}
Registered == DevIdsOf(g_devs)
DevOf(id) == CHOOSE d \in Range(g_devs) : d.id = id
\* calloc: some address not currently allocated (the lowest, for determinism)
calloc_dev(devs) == CHOOSE id \in DevIds \ DevIdsOf(devs) :
                      \A o \in DevIds \ DevIdsOf(devs) : id <= o

\* ---- register_dev ----
\* (variant: the sector-size test of line 111 left out)
ns_skipped_no_sector_test(ns) ==
  \/ ~ns.present \/ ~ns.active
  \/ ns.size < g_io_size_bytes

\* The validation of lines 105-119: TRUE when the candidate is skipped.
ns_skipped(ns) ==
  \/ ~ns.present \/ ~ns.active
  \/ ns.size < g_io_size_bytes
  \/ ns.sector > g_io_size_bytes

\* The descriptor as filled in by lines 90-122 (calloc zeroes the counters).
new_dev(id, ctrlr, ns) ==
  [ id |-> id, ctrlr |-> ctrlr, ns |-> ns,
    is_new |-> TRUE, is_removed |-> FALSE, is_draining |-> FALSE,
    size_in_ios |-> ns.size \div g_io_size_bytes,
    io_size_blocks |-> g_io_size_bytes \div ns.sector,
    io_completed |-> 0, prev_io_completed |-> 0,
    current_queue_depth |-> 0, offset_in_ios |-> 0 ]

\* TRUE when register_dev reaches TAILQ_INSERT_TAIL; qp_ok is whether
\* spdk_nvme_ctrlr_alloc_io_qpair returned a qpair.
register_ok(ns, qp_ok) == ~ns_skipped(ns) /\ qp_ok

\* TRUE when register_dev calls spdk_nvme_ctrlr_alloc_io_qpair at all.
alloc_called(ns) == ~ns_skipped(ns)

register_dev(devs, ctrlr, ns, qp_ok) ==
  IF register_ok(ns, qp_ok)
    THEN Append(devs, new_dev(calloc_dev(devs), ctrlr, ns))
    ELSE devs

\* ---- submit_single_io / task_complete ----
\* They act on one descriptor, the pool and the descriptor's qpair:
\*   m = [dev, pool, qp, read]
\* rc is what spdk_nvme_ns_cmd_read returns.  rte_mempool_get failing ends
\* the process (exit(1)); with PoolSize tasks and at most g_queue_depth taken
\* per registered descriptor it cannot fail here.
\* (variant: the cursor not wrapping)
next_offset_no_wrap(dev) == dev.offset_in_ios + 1

next_offset(dev) ==
  IF dev.offset_in_ios + 1 = dev.size_in_ios THEN 0 ELSE dev.offset_in_ios + 1

\* (variant: the task of a rejected read not given back to the pool)
submit_single_io_leaks_task(m, rc) ==
  [ dev  |-> [m.dev EXCEPT
                !.offset_in_ios = next_offset(m.dev),
                !.current_queue_depth = IF rc = 0 THEN @ + 1 ELSE @],
    pool |-> m.pool - 1,
    qp   |-> [m.qp EXCEPT !.calls = @ + 1,
                          !.submitted = IF rc = 0 THEN @ + 1 ELSE @],
    read |-> [dev |-> m.dev.id,
              ns |-> m.dev.ns,
              lba |-> m.dev.offset_in_ios * m.dev.io_size_blocks,
              lba_count |-> m.dev.io_size_blocks] ]

\* (variant: current_queue_depth counted up before the return code is looked at)
submit_single_io_counts_rejected(m, rc) ==
  [ dev  |-> [m.dev EXCEPT
                !.offset_in_ios = next_offset(m.dev),
                !.current_queue_depth = @ + 1],
    pool |-> IF rc = 0 THEN m.pool - 1 ELSE (m.pool - 1) + 1,
    qp   |-> [m.qp EXCEPT !.calls = @ + 1,
                          !.submitted = IF rc = 0 THEN @ + 1 ELSE @],
    read |-> [dev |-> m.dev.id,
              ns |-> m.dev.ns,
              lba |-> m.dev.offset_in_ios * m.dev.io_size_blocks,
              lba_count |-> m.dev.io_size_blocks] ]

submit_single_io(m, rc) ==
  [ dev  |-> [m.dev EXCEPT
                !.offset_in_ios = next_offset(m.dev),
                !.current_queue_depth = IF rc = 0 THEN @ + 1 ELSE @],
    \* rte_mempool_get, and rte_mempool_put when the read was rejected
    pool |-> IF rc = 0 THEN m.pool - 1 ELSE (m.pool - 1) + 1,
    qp   |-> [m.qp EXCEPT !.calls = @ + 1,
                          !.submitted = IF rc = 0 THEN @ + 1 ELSE @],
    read |-> [dev |-> m.dev.id,
              ns |-> m.dev.ns,
              lba |-> m.dev.offset_in_ios * m.dev.io_size_blocks,
              lba_count |-> m.dev.io_size_blocks] ]

\* task_complete's test of line 210
\* (variant: the handler not testing is_removed before it resubmits)
resubmits_ignoring_removed(dev) == ~dev.is_draining

resubmits(dev) == ~dev.is_draining /\ ~dev.is_removed

\* (variant: the handler submitting a second read when the depth is short)
task_complete_tops_up(m, rc) ==
  LET done == [ dev  |-> [m.dev EXCEPT
                            !.current_queue_depth = @ - 1,
                            !.io_completed = @ + 1],
                pool |-> m.pool + 1,
                qp   |-> [m.qp EXCEPT !.completed = @ + 1],
                read |-> NoRead ]
      once == submit_single_io(done, rc)
  IN IF resubmits(done.dev)
       THEN IF once.dev.current_queue_depth < g_queue_depth
              THEN submit_single_io(once, 0) ELSE once
       ELSE done

\* (variant: the rte_mempool_put of line 202 left out)
task_complete_keeps_task(m, rc) ==
  LET done == [ dev  |-> [m.dev EXCEPT
                            !.current_queue_depth = @ - 1,
                            !.io_completed = @ + 1],
                pool |-> m.pool,
                qp   |-> [m.qp EXCEPT !.completed = @ + 1],
                read |-> NoRead ]
  IN IF resubmits(done.dev) THEN submit_single_io(done, rc) ELSE done

\* (variant: the decrement of line 199 left out)
task_complete_no_decrement(m, rc) ==
  LET done == [ dev  |-> [m.dev EXCEPT !.io_completed = @ + 1],
                pool |-> m.pool + 1,
                qp   |-> [m.qp EXCEPT !.completed = @ + 1],
                read |-> NoRead ]
  IN IF resubmits(done.dev) THEN submit_single_io(done, rc) ELSE done

\* current_queue_depth is a uint64_t: a decrement at 0 would wrap to 2^64-1,
\* which is written -1 here (outside 0..g_queue_depth either way).
task_complete(m, rc) ==
  LET done == [ dev  |-> [m.dev EXCEPT
                            !.current_queue_depth = @ - 1,
                            !.io_completed = @ + 1],
                pool |-> m.pool + 1,
                qp   |-> [m.qp EXCEPT !.completed = @ + 1],
                read |-> NoRead ]
  IN IF resubmits(done.dev) THEN submit_single_io(done, rc) ELSE done

\* (variant: is_new left set after the burst)
after_burst_still_new(dev) == dev

\* io_loop, line 335: the initial burst is over
after_burst(dev) == [dev EXCEPT !.is_new = FALSE]

\* ---- unregister_dev, the sweep, drain_io ----
\* spdk_nvme_ctrlr_free_io_qpair: the qpair and its history are gone; what
\* stays are the reads still outstanding on it, whose tasks point to the
\* descriptor being freed.
free_io_qpair(q) ==
  [calls |-> 0, submitted |-> q.submitted - q.completed, completed |-> 0]

unregister_dev(devs, id) == SelectSeq(devs, LAMBDA d : d.id # id)

\* (variant: the sweep not waiting for the outstanding I/O)
swept_any_depth(dev) == dev.is_removed

swept(dev) == dev.is_removed /\ dev.current_queue_depth = 0
sweep(devs) == SelectSeq(devs, LAMBDA d : ~swept(d))

\* (variant: drain_io returning without polling)
drain_done_no_wait(dev) == TRUE

\* drain_io's loop condition, negated
drain_done(dev) == ~(dev.current_queue_depth > 0)

\* ---- remove_cb ----
tracked(devs, ctrlr) == \E i \in 1..Len(devs) : devs[i].ctrlr = ctrlr
first_of(devs, ctrlr) ==
  CHOOSE i \in 1..Len(devs) :
    devs[i].ctrlr = ctrlr /\ \A j \in 1..(i - 1) : devs[j].ctrlr # ctrlr

\* (variant: the removal callback unlinking the descriptor at once)
mark_removed_unlinks(devs, ctrlr) == SelectSeq(devs, LAMBDA d : d.ctrlr # ctrlr)

\* remove_cb's walk: the first descriptor of the controller gets is_removed
mark_removed(devs, ctrlr) ==
  IF tracked(devs, ctrlr)
    THEN [devs EXCEPT ![first_of(devs, ctrlr)].is_removed = TRUE]
    ELSE devs

\* (variant: a removal callback detaching a tracked controller that is idle)
detach_on_remove_when_idle(devs, ctrlr) ==
  \/ ~tracked(devs, ctrlr)
  \/ devs[first_of(devs, ctrlr)].current_queue_depth = 0

\* (variant: a removal callback detaching the controller whether tracked or not)
remove_detaches_always(devs, ctrlr) == TRUE

detach_on_remove(devs, ctrlr) == ~tracked(devs, ctrlr)

\* ---- io_loop's tests ----
\* (variant: a failed hotplug probe logged and the pass carried on)
after_hotplug_probe_carries_on(rc) == "sweep"

\* lines 344-347: a failed probe breaks out of the while loop, to line 372
after_hotplug_probe(rc) == IF rc # 0 THEN "shutdown" ELSE "sweep"

\* (variant: the run ends as soon as the duration is reached)
expired_when_reached(t) == t >= RunTicks

\* line 363: now > tsc_end, with tsc_end = start + g_time_in_sec * g_tsc_rate
expired(t) == t > RunTicks

\* print_stats, lines 249-255: every descriptor's report baseline is moved up
print_stats(devs) ==
  [i \in 1..Len(devs) |->
     [devs[i] EXCEPT !.prev_io_completed = devs[i].io_completed]]

\* (variant: drain_io not marking the device)
begin_drain_no_mark(dev) == dev

\* drain_io, line 238
begin_drain(dev) == [dev EXCEPT !.is_draining = TRUE]

\* ---- state ----
Init ==
  /\ g_devs = << >>
  /\ task_pool = PoolSize
  /\ nvme = [id \in DevIds |-> NewQpair]
  /\ qpairs = {}
  /\ attached = {}
  /\ last_read = NoRead
  /\ pc = "register_controllers"
  /\ cur = 0
  /\ queue_depth = 0
  /\ polled = 0
  /\ events = 0
  /\ now = 0
  /\ next_stats_tsc = 0
  /\ main_rc = -1

InProbe == pc \in {"register_controllers", "hotplug_probe"}

\* Apply the result m of submit_single_io/task_complete on g_devs[i].
Ctx(i) == [dev |-> g_devs[i], pool |-> task_pool,
           qp |-> nvme[g_devs[i].id], read |-> last_read]
Store(i, m) ==
  /\ g_devs' = [g_devs EXCEPT ![i] = m.dev]
  /\ task_pool' = m.pool
  /\ nvme' = [nvme EXCEPT ![g_devs[i].id] = m.qp]
  /\ last_read' = m.read

\* ---- spdk_nvme_probe: the callbacks it delivers and its return ----
\* The driver attaches a controller it does not hold attached, and reports
\* the removal of one it holds attached, again at every probe until the
\* program detaches it.
attach_cb(c, ns, qp_ok) ==
  /\ InProbe /\ events < MaxEvents
  /\ c \notin attached
  /\ DevIds \ Registered # {}
  /\ attached' = attached \cup {c}
  /\ g_devs' = register_dev(g_devs, c, ns, qp_ok)
  /\ qpairs' = IF alloc_called(ns) /\ qp_ok /\ register_ok(ns, qp_ok)
                 THEN qpairs \cup {calloc_dev(g_devs)} ELSE qpairs
  /\ nvme' = IF alloc_called(ns) /\ qp_ok
               THEN [nvme EXCEPT ![calloc_dev(g_devs)] = NewQpair]
               ELSE nvme
  /\ events' = events + 1
  /\ last_read' = NoRead
  /\ UNCHANGED <<task_pool, pc, cur, queue_depth, polled, now, next_stats_tsc, main_rc>>

remove_cb(c) ==
  /\ InProbe /\ events < MaxEvents
  /\ c \in attached
  /\ g_devs' = mark_removed(g_devs, c)
  /\ attached' = IF detach_on_remove(g_devs, c) THEN attached \ {c} ELSE attached
  /\ events' = events + 1
  /\ last_read' = NoRead
  /\ UNCHANGED <<task_pool, nvme, qpairs, pc, cur, queue_depth,
                 polled, now, next_stats_tsc, main_rc>>

\* register_controllers(): the startup probe returns
startup_probe_return(rc) ==
  /\ pc = "register_controllers"
  /\ IF rc # 0
       THEN /\ pc' = "exit" /\ main_rc' = 1
            /\ UNCHANGED <<cur, now, next_stats_tsc>>
       ELSE /\ pc' = "foreach_dev" /\ cur' = 1 /\ now' = 0
            /\ next_stats_tsc' = 0
            /\ UNCHANGED main_rc
  /\ events' = 0
  /\ last_read' = NoRead
  /\ UNCHANGED <<g_devs, task_pool, nvme, qpairs, attached, queue_depth, polled>>

\* io_loop: the hotplug probe returns
hotplug_probe_return(rc) ==
  /\ pc = "hotplug_probe"
  /\ pc' = after_hotplug_probe(rc)
  /\ events' = 0
  /\ last_read' = NoRead
  /\ UNCHANGED <<g_devs, task_pool, nvme, qpairs, attached, cur,
                 queue_depth, polled, now, next_stats_tsc, main_rc>>

\* ---- io_loop: the service loop ----
foreach_dev ==
  /\ pc = "foreach_dev"
  /\ IF cur > Len(g_devs)
       THEN pc' = "hotplug_probe" /\ cur' = 0 /\ UNCHANGED queue_depth
       ELSE IF g_devs[cur].is_new
              THEN pc' = "submit_io" /\ queue_depth' = g_queue_depth
                   /\ UNCHANGED cur
              ELSE pc' = "check_io" /\ UNCHANGED <<queue_depth, cur>>
  /\ polled' = 0 /\ events' = 0
  /\ last_read' = NoRead
  /\ UNCHANGED <<g_devs, task_pool, nvme, qpairs, attached, now, next_stats_tsc, main_rc>>

\* one turn of submit_io's while loop
submit_io(rc) ==
  /\ pc = "submit_io"
  /\ queue_depth > 0
  /\ Store(cur, submit_single_io(Ctx(cur), rc))
  /\ queue_depth' = queue_depth - 1
  /\ UNCHANGED <<qpairs, attached, pc, cur, polled, events, now, next_stats_tsc, main_rc>>

\* submit_io returns; dev->is_new = false
submit_io_return ==
  /\ pc = "submit_io"
  /\ ~(queue_depth > 0)
  /\ g_devs' = [g_devs EXCEPT ![cur] = after_burst(@)]
  /\ pc' = "check_io"
  /\ last_read' = NoRead
  /\ UNCHANGED <<task_pool, nvme, qpairs, attached, cur,
                 queue_depth, polled, events, now, next_stats_tsc, main_rc>>

\* check_io: the driver calls io_complete for one finished read
io_complete(rc) ==
  /\ pc = "check_io"
  /\ polled < MaxPoll
  /\ nvme[g_devs[cur].id].submitted > nvme[g_devs[cur].id].completed
  /\ Store(cur, task_complete(Ctx(cur), rc))
  /\ polled' = polled + 1
  /\ UNCHANGED <<qpairs, attached, pc, cur, queue_depth, events, now, next_stats_tsc, main_rc>>

check_io_return ==
  /\ pc = "check_io"
  /\ pc' = "foreach_dev"
  /\ cur' = cur + 1
  /\ last_read' = NoRead
  /\ polled' = 0
  /\ UNCHANGED <<g_devs, task_pool, nvme, qpairs, attached, queue_depth,
                 events, now, next_stats_tsc, main_rc>>

\* ---- io_loop: sweep of hot-removed devices, time check ----
hot_remove_sweep ==
  /\ pc = "sweep"
  /\ g_devs' = sweep(g_devs)
  /\ qpairs' = qpairs \ (Registered \ DevIdsOf(sweep(g_devs)))
  /\ attached' = attached \ {d.ctrlr : d \in Range(g_devs) \ Range(sweep(g_devs))}
  /\ nvme' = [id \in DevIds |->
                IF id \in Registered \ DevIdsOf(sweep(g_devs))
                  THEN free_io_qpair(nvme[id]) ELSE nvme[id]]
  /\ pc' = "time_check"
  /\ last_read' = NoRead
  /\ UNCHANGED <<task_pool, cur, queue_depth, polled, events, now, next_stats_tsc, main_rc>>

\* lines 362-369: the clock is read, then the expiry test, then the report
time_check(t) ==
  /\ pc = "time_check"
  /\ t > now
  /\ now' = t
  /\ IF expired(t)
       THEN pc' = "shutdown" /\ UNCHANGED <<cur, g_devs, next_stats_tsc>>
       ELSE /\ pc' = "foreach_dev" /\ cur' = 1
            /\ IF t > next_stats_tsc
                 THEN /\ g_devs' = print_stats(g_devs)
                      /\ next_stats_tsc' = next_stats_tsc + g_tsc_rate
                 ELSE UNCHANGED <<g_devs, next_stats_tsc>>
  /\ last_read' = NoRead
  /\ UNCHANGED <<task_pool, nvme, qpairs, attached, queue_depth,
                 polled, events, main_rc>>

\* ---- io_loop: shutdown ----
drain_io_begin ==
  /\ pc = "shutdown"
  /\ g_devs # << >>
  /\ g_devs' = [g_devs EXCEPT ![1] = begin_drain(@)]
  /\ pc' = "drain_io"
  /\ last_read' = NoRead
  /\ UNCHANGED <<task_pool, nvme, qpairs, attached, cur,
                 queue_depth, polled, events, now, next_stats_tsc, main_rc>>

drain_io_complete(rc) ==
  /\ pc = "drain_io"
  /\ ~drain_done(g_devs[1])
  /\ nvme[g_devs[1].id].submitted > nvme[g_devs[1].id].completed
  /\ Store(1, task_complete(Ctx(1), rc))
  /\ UNCHANGED <<qpairs, attached, pc, cur, queue_depth, polled, events,
                 now, next_stats_tsc, main_rc>>

drain_io_unregister ==
  /\ pc = "drain_io"
  /\ drain_done(g_devs[1])
  /\ g_devs' = unregister_dev(g_devs, g_devs[1].id)
  /\ qpairs' = qpairs \ {g_devs[1].id}
  /\ attached' = attached \ {g_devs[1].ctrlr}
  /\ nvme' = [nvme EXCEPT ![g_devs[1].id] = free_io_qpair(@)]
  /\ pc' = "shutdown"
  /\ last_read' = NoRead
  /\ UNCHANGED <<task_pool, cur, queue_depth, polled, events, now, next_stats_tsc, main_rc>>

io_loop_return ==
  /\ pc = "shutdown"
  /\ g_devs = << >>
  /\ pc' = "done"
  /\ main_rc' = 0
  /\ last_read' = NoRead
  /\ UNCHANGED <<g_devs, task_pool, nvme, qpairs, attached, cur,
                 queue_depth, polled, events, now, next_stats_tsc>>

Next ==
  \/ \E c \in Ctrlrs, ns \in Namespaces, qp_ok \in BOOLEAN : attach_cb(c, ns, qp_ok)
  \/ \E c \in Ctrlrs : remove_cb(c)
  \/ \E rc \in ProbeRcs : startup_probe_return(rc)
  \/ \E rc \in ProbeRcs : hotplug_probe_return(rc)
  \/ foreach_dev
  \/ \E rc \in ReadRcs : submit_io(rc)
  \/ submit_io_return
  \/ \E rc \in ReadRcs : io_complete(rc)
  \/ check_io_return
  \/ hot_remove_sweep
  \/ \E t \in 1..(RunTicks + 1) : time_check(t)
  \/ drain_io_begin
  \/ \E rc \in ReadRcs : drain_io_complete(rc)
  \/ drain_io_unregister
  \/ io_loop_return

Spec == Init /\ [][Next]_vars

\* The thread keeps running and the driver delivers a completion for an
\* outstanding read to a drain loop that keeps polling for it.
FairSpec == Spec /\ WF_vars(Next)

\* ---- properties ----
Outstanding(id) == nvme[id].submitted - nvme[id].completed
Active(d) == ~d.is_new /\ ~d.is_removed /\ ~d.is_draining

\* C1: every registered device has 0 <= current_queue_depth <= g_queue_depth
\* in every reachable state.
C1_DepthBounded ==
  \A i \in 1..Len(g_devs) :
    /\ 0 <= g_devs[i].current_queue_depth
    /\ g_devs[i].current_queue_depth <= g_queue_depth

\* A device is at full depth after a completion was refilled.
C1_Witness ==
  \E i \in 1..Len(g_devs) :
    /\ g_devs[i].current_queue_depth = g_queue_depth
    /\ g_devs[i].io_completed > 0

\* C2: between main-loop steps every device that got its initial burst and is
\* neither removed nor draining has current_queue_depth = g_queue_depth,
\* whatever the submissions returned.
C2_ExactDepth ==
  \A i \in 1..Len(g_devs) :
    Active(g_devs[i]) => g_devs[i].current_queue_depth = g_queue_depth

\* C3: a device leaves the registry only with current_queue_depth = 0, on
\* every path, and the driver holds no outstanding read for a descriptor
\* that is not registered.
C3_UnregisterIdle ==
  /\ [][ \A id \in Registered :
           id \notin Registered' => DevOf(id).current_queue_depth = 0 ]_vars
  /\ [](\A id \in DevIds \ Registered : Outstanding(id) = 0)

\* After a failed hotplug probe a device that was neither new nor removed
\* has been drained (a read of it completed without a replacement) and is
\* about to be unregistered.
C3_Witness ==
  /\ pc = "drain_io" /\ now <= RunTicks
  /\ g_devs[1].is_draining /\ ~g_devs[1].is_removed
  /\ g_devs[1].current_queue_depth = 0
  /\ nvme[g_devs[1].id].completed > nvme[g_devs[1].id].calls - g_queue_depth


\* C4: once the elapsed time exceeds the run duration, io_loop eventually
\* returns; it returns 0 with an empty registry, and not before every read
\* the driver accepted has completed.
C4_ShutdownTerminates ==
  /\ (now > RunTicks) ~> (pc = "done")
  /\ [](pc = "done" =>
         /\ g_devs = << >>
         /\ main_rc = 0
         /\ \A id \in DevIds : Outstanding(id) = 0)

\* Time is up, two devices hold outstanding reads, the first is being drained.
C4_Witness ==
  /\ pc = "drain_io" /\ now > RunTicks
  /\ Len(g_devs) = 2
  /\ g_devs[1].is_draining
  /\ g_devs[1].current_queue_depth > 0
  /\ g_devs[2].current_queue_depth > 0

\* C5: a device marked removed with reads outstanding eventually leaves the
\* registry; it stays registered while its current_queue_depth is above 0,
\* and the sweep of a running pass removes exactly the removed devices whose
\* current_queue_depth is 0.
RemovedBusy(id) ==
  /\ id \in Registered
  /\ DevOf(id).is_removed
  /\ DevOf(id).current_queue_depth > 0

C5_RemovedThenSwept ==
  /\ \A id \in DevIds : RemovedBusy(id) ~> (id \notin Registered)
  /\ [][ \A id \in Registered :
           /\ DevOf(id).current_queue_depth > 0 => id \in Registered'
           /\ pc = "sweep" =>
                (id \notin Registered' <=>
                   DevOf(id).is_removed /\ DevOf(id).current_queue_depth = 0) ]_vars

\* The sweep is about to unregister a removed device, at least one of whose
\* reads completed without a replacement being attempted (after the removal).
C5_Witness ==
  /\ pc = "sweep"
  /\ \E i \in 1..Len(g_devs) :
       /\ g_devs[i].is_removed
       /\ g_devs[i].current_queue_depth = 0
       /\ nvme[g_devs[i].id].completed >
            nvme[g_devs[i].id].calls - g_queue_depth

\* C6: a removal notification for a tracked device that is already marked
\* removed changes nothing (registry, flags, counters, attached controllers,
\* qpairs), and marking twice equals marking once.
AlreadyRemoved(c) ==
  \E i \in 1..Len(g_devs) : g_devs[i].ctrlr = c /\ g_devs[i].is_removed

C6_RemoveIdempotent ==
  /\ [][ \A c \in Ctrlrs :
           (AlreadyRemoved(c) /\ remove_cb(c)) =>
             UNCHANGED <<g_devs, attached, qpairs, nvme, task_pool, last_read>> ]_vars
  /\ [](\A c \in Ctrlrs :
          tracked(g_devs, c) =>
            /\ mark_removed(mark_removed(g_devs, c), c) = mark_removed(g_devs, c)
            /\ ~detach_on_remove(mark_removed(g_devs, c), c))

\* A probe is delivering callbacks to a registry that holds a device already
\* marked removed, whose controller the driver still reports.
C6_Witness ==
  /\ InProbe /\ events < MaxEvents
  /\ \E c \in attached : AlreadyRemoved(c)

\* C7: every registered device has size_in_ios >= 1 and its cursor in
\* [0, size_in_ios), and every read issued lies inside its namespace: at an
\* I/O offset below size_in_ios.
ReadInside(r) ==
  /\ r.lba + r.lba_count <= r.ns.size \div r.ns.sector
  /\ r.lba_count > 0
  /\ r.lba \div r.lba_count < r.ns.size \div g_io_size_bytes

C7_CursorInRange ==
  /\ \A i \in 1..Len(g_devs) :
       /\ g_devs[i].size_in_ios >= 1
       /\ 0 <= g_devs[i].offset_in_ios
       /\ g_devs[i].offset_in_ios < g_devs[i].size_in_ios
  /\ last_read # NoRead => ReadInside(last_read)

\* A device of a single I/O unit has reads outstanding, one of them the
\* latest read issued.
C7_Witness ==
  \E i \in 1..Len(g_devs) :
    /\ g_devs[i].size_in_ios = 1
    /\ g_devs[i].current_queue_depth > 1
    /\ last_read.dev = g_devs[i].id

\* C8: an attach event whose namespace is missing, inactive, smaller than the
\* I/O size or of a sector larger than the I/O size, or whose qpair allocation
\* fails, leaves the registry and the qpairs as they were; the registry grows
\* only by an attach event that passed both, by one descriptor in the New state.
Invalid(ns) ==
  \/ ~ns.present \/ ~ns.active
  \/ ns.size < 4096
  \/ ns.sector > 4096

IsNewDescriptor(d) ==
  /\ d.is_new /\ ~d.is_removed /\ ~d.is_draining
  /\ d.current_queue_depth = 0 /\ d.io_completed = 0 /\ d.offset_in_ios = 0

C8_RejectedAttach ==
  [][ /\ \A c \in Ctrlrs, ns \in Namespaces, qp_ok \in BOOLEAN :
           (attach_cb(c, ns, qp_ok) /\ (Invalid(ns) \/ ~qp_ok)) =>
             UNCHANGED <<g_devs, qpairs>>
      /\ Len(g_devs') > Len(g_devs) =>
           /\ Len(g_devs') = Len(g_devs) + 1
           /\ SubSeq(g_devs', 1, Len(g_devs)) = g_devs
           /\ IsNewDescriptor(g_devs'[Len(g_devs')])
           /\ g_devs'[Len(g_devs')].id \in qpairs'
           /\ \E c \in Ctrlrs, ns \in Namespaces :
                attach_cb(c, ns, TRUE) /\ ~Invalid(ns) ]_vars

\* The startup probe delivered an attach event and the registry is still
\* empty, with no qpair allocated.
C8_Witness ==
  /\ pc = "register_controllers" /\ events > 0
  /\ attached # {}
  /\ g_devs = << >> /\ qpairs = {}

InFirstBurst(i) == pc = "submit_io" /\ cur = i

C10_BurstOnce ==
  /\ [](\A i \in 1..Len(g_devs) :
          LET d == g_devs[i]
              q == nvme[d.id]
          IN /\ d.is_new =>
                  /\ d.io_completed = 0
                  /\ q.calls = IF InFirstBurst(i)
                                 THEN g_queue_depth - queue_depth ELSE 0
             /\ ~d.is_new =>
                  /\ ~InFirstBurst(i)
                  /\ q.calls >= g_queue_depth
                  /\ q.calls <= g_queue_depth + d.io_completed
                  /\ (q.calls = q.submitted /\ d.io_completed = 0)
                       => d.current_queue_depth = g_queue_depth
             /\ (pc \in {"foreach_dev", "submit_io", "check_io"} /\ i < cur)
                  => ~d.is_new
             /\ (pc = "check_io" /\ i = cur) => ~d.is_new
             /\ (pc = "hotplug_probe" /\ events = 0) => ~d.is_new
             /\ \A j \in 1..Len(g_devs) : j # i => g_devs[j].id # d.id)
  /\ [][ \A id \in Registered \cap Registered' :
           ~DevOf(id).is_new => ~DevOf(id)'.is_new ]_vars

\* The first pass is over for the only device: four read calls, four
\* accepted, the device no longer New.
C10_Witness ==
  /\ pc = "hotplug_probe" /\ now = 0
  /\ Len(g_devs) = 1
  /\ ~g_devs[1].is_new
  /\ nvme[g_devs[1].id].calls = g_queue_depth
  /\ g_devs[1].current_queue_depth = g_queue_depth


\* The positions after io_loop's while loop: line 372 onwards.
ShutdownPcs == {"shutdown", "drain_io", "done"}

\* C11: a failed hotplug probe ends the loop in the pass it happens in: the
\* step goes straight to the code after the loop, and from there on there is
\* no further service pass, no sweep and no statistics report, whatever the
\* clock says; a failed startup probe makes main return non-zero with
\* io_loop never entered and no read ever issued.
C11_ScanFailureFatal ==
  [][ /\ \A rc \in ProbeRcs \ {0} :
           hotplug_probe_return(rc) => pc' = "shutdown"
      /\ pc \in ShutdownPcs =>
           /\ pc' \in ShutdownPcs
           /\ next_stats_tsc' = next_stats_tsc
           /\ now' = now
           /\ \A i \in 1..Len(g_devs), j \in 1..Len(g_devs') :
                g_devs[i].id = g_devs'[j].id =>
                  g_devs'[j].prev_io_completed = g_devs[i].prev_io_completed
      /\ \A rc \in ProbeRcs \ {0} :
           startup_probe_return(rc) =>
             /\ pc' = "exit" /\ main_rc' # 0
             /\ \A id \in DevIds : nvme'[id].calls = 0
      /\ pc = "exit" => pc' = "exit" ]_vars

\* A hotplug probe failed with run time left and reads outstanding.
C11_Witness ==
  /\ pc = "shutdown" /\ now <= RunTicks
  /\ \E i \in 1..Len(g_devs) : g_devs[i].current_queue_depth > 0

Completes(id) ==
  /\ id \in Registered
  /\ nvme'[id].completed = nvme[id].completed + 1

\* C13: every completion handled for a device counts one I/O as completed,
\* frees its task and takes it off the depth; in the same step exactly one
\* new read is attempted for that device if it is neither removed nor
\* draining, and none otherwise; no other device is touched by the step.
C13_CompletionHandler ==
  [][ \A id \in DevIds :
        Completes(id) =>
          LET d == DevOf(id)
              attempts == nvme'[id].calls - nvme[id].calls
              accepted == nvme'[id].submitted - nvme[id].submitted
          IN /\ id \in Registered'
             /\ DevOf(id)'.io_completed = d.io_completed + 1
             /\ attempts = IF ~d.is_removed /\ ~d.is_draining THEN 1 ELSE 0
             /\ accepted \in 0..attempts
             /\ DevOf(id)'.current_queue_depth
                  = (d.current_queue_depth - 1) + accepted
             /\ task_pool' = (task_pool + 1) - accepted
             /\ last_read'.dev = IF attempts = 1 THEN id ELSE NoRead.dev
             /\ \A o \in DevIds \ {id} : nvme'[o] = nvme[o]
             /\ \A j \in 1..Len(g_devs) :
                  g_devs[j].id # id => g_devs'[j] = g_devs[j] ]_vars

\* check_io has just handled a completion of an active device and the
\* handler issued the replacement read.
C13_Witness ==
  /\ pc = "check_io" /\ polled > 0
  /\ Active(g_devs[cur])
  /\ last_read.dev = g_devs[cur].id

\* C14: a removal callback for a tracked controller sets that descriptor's
\* is_removed and changes nothing else (the controller stays attached, the
\* qpair allocated, the registry's members and order, the depth, the
\* completion count and the cursor as they were); for a controller with no
\* descriptor it detaches the controller and leaves the registry and every
\* descriptor as they were.
C14_RemoveFrame ==
  [][ \A c \in Ctrlrs :
        remove_cb(c) =>
          /\ UNCHANGED <<qpairs, nvme, task_pool, pc, cur, queue_depth, now>>
          /\ IF \E i \in 1..Len(g_devs) : g_devs[i].ctrlr = c
               THEN /\ attached' = attached
                    /\ \E i \in 1..Len(g_devs) :
                         /\ g_devs[i].ctrlr = c
                         /\ g_devs' = [g_devs EXCEPT ![i].is_removed = TRUE]
               ELSE /\ attached' = attached \ {c}
                    /\ c \in attached
                    /\ g_devs' = g_devs ]_vars

\* A probe can deliver either kind of removal: one controller is attached
\* without a descriptor, another has a descriptor with reads outstanding
\* that is not yet marked removed.
C14_Witness ==
  /\ InProbe /\ events < MaxEvents
  /\ \E c \in attached : ~tracked(g_devs, c)
  /\ \E i \in 1..Len(g_devs) :
       /\ g_devs[i].ctrlr \in attached
       /\ ~g_devs[i].is_removed
       /\ g_devs[i].current_queue_depth > 0

\* spdk_nvme_ns_cmd_read was called for descriptor id and returned non-zero.
Rejected(id) ==
  /\ id \in Registered
  /\ nvme'[id].calls = nvme[id].calls + 1
  /\ nvme'[id].submitted = nvme[id].submitted

\* C15: a rejected read leaves the free-task count, the depth and the
\* completion count where they were before the submission (apart from the
\* completion being handled, when the read was its replacement) and only
\* advances the cursor; the burst's countdown goes on without repeating it,
\* and over a descriptor's whole life the read calls never exceed the burst
\* plus one per completion, so a rejected read is never retried.
C15_RejectedRead ==
  /\ [][ \A id \in DevIds :
           Rejected(id) =>
             LET d == DevOf(id)
                 comp == nvme'[id].completed - nvme[id].completed
             IN /\ id \in Registered'
                /\ comp = IF pc = "submit_io" THEN 0 ELSE 1
                /\ task_pool' = task_pool + comp
                /\ DevOf(id)'.current_queue_depth = d.current_queue_depth - comp
                /\ DevOf(id)'.io_completed = d.io_completed + comp
                /\ DevOf(id)'.offset_in_ios
                     = (d.offset_in_ios + 1) % d.size_in_ios
                /\ pc = "submit_io" => queue_depth' = queue_depth - 1
                /\ pc' = pc ]_vars
  /\ [](\A i \in 1..Len(g_devs) :
          nvme[g_devs[i].id].calls <= g_queue_depth + g_devs[i].io_completed)

\* A read of the initial burst was rejected and the burst goes on.
C15_Witness ==
  /\ pc = "submit_io" /\ queue_depth > 0
  /\ nvme[g_devs[cur].id].calls > nvme[g_devs[cur].id].submitted

\* C16: once a device's burst is over its depth, as seen between steps, never
\* goes up; a device with a rejected read has a depth strictly below
\* g_queue_depth for as long as it is registered; and a device that is
\* neither new, removed nor draining and has depth 0 gets no further read
\* call.
C16_DepthNeverRegained ==
  /\ [][ \A id \in Registered \cap Registered' :
           /\ ~DevOf(id).is_new =>
                DevOf(id)'.current_queue_depth <= DevOf(id).current_queue_depth
           /\ (Active(DevOf(id)) /\ DevOf(id).current_queue_depth = 0) =>
                /\ nvme'[id].calls = nvme[id].calls
                /\ DevOf(id)'.current_queue_depth = 0 ]_vars
  /\ [](\A i \in 1..Len(g_devs) :
          nvme[g_devs[i].id].calls > nvme[g_devs[i].id].submitted =>
            g_devs[i].current_queue_depth < g_queue_depth)

\* A device still served by the loop has lost its whole depth: reads
\* completed, every replacement was rejected, nothing is outstanding.
C16_Witness ==
  /\ pc \notin ShutdownPcs
  /\ \E i \in 1..Len(g_devs) :
       /\ Active(g_devs[i])
       /\ g_devs[i].current_queue_depth = 0
       /\ g_devs[i].io_completed > 0

C18_DrainOneAtATime ==
  /\ [](\A i \in 1..Len(g_devs) :
          g_devs[i].is_draining => (i = 1 /\ pc = "drain_io"))
  /\ [](pc = "drain_io" => (g_devs # << >> /\ g_devs[1].is_draining))
  /\ [][ (pc \in ShutdownPcs /\ g_devs # << >>) =>
           /\ \/ /\ Len(g_devs') = Len(g_devs)
                 /\ Tail(g_devs') = Tail(g_devs)
                 /\ g_devs'[1].id = g_devs[1].id
              \/ /\ g_devs' = Tail(g_devs)
                 /\ pc = "drain_io" /\ pc' = "shutdown"
                 /\ g_devs[1].current_queue_depth = 0
           /\ \A id \in Registered \ {g_devs[1].id} : nvme'[id] = nvme[id]
           /\ \A id \in Registered' : nvme'[id].calls = nvme[id].calls
           /\ last_read' = NoRead ]_vars

\* The head is being drained with reads outstanding while a second device,
\* neither removed nor yet marked draining, has reads outstanding too.
C18_Witness ==
  /\ pc = "drain_io" /\ Len(g_devs) = 2
  /\ g_devs[1].current_queue_depth > 0
  /\ g_devs[2].current_queue_depth > 0
  /\ ~g_devs[2].is_removed /\ ~g_devs[2].is_draining

\* Sum of current_queue_depth over the registry.
RECURSIVE SumDepth(_)
SumDepth(devs) ==
  IF devs = << >> THEN 0
  ELSE Head(devs).current_queue_depth + SumDepth(Tail(devs))

\* Tasks taken from the pool and not yet given back.
TasksOut == PoolSize - task_pool

\* C19: between steps the tasks out of the pool are as many as the sum of
\* current_queue_depth over the registered devices, and each belongs to a
\* read outstanding on a registered device (none to a descriptor that was
\* unregistered); so at most g_queue_depth per registered device are out,
\* and when io_loop has returned the registry is empty and the pool full.
C19_PoolConservation ==
  /\ TasksOut = SumDepth(g_devs)
  /\ \A i \in 1..Len(g_devs) :
       Outstanding(g_devs[i].id) = g_devs[i].current_queue_depth
  /\ \A id \in DevIds \ Registered : Outstanding(id) = 0
  /\ TasksOut <= Len(g_devs) * g_queue_depth
  /\ pc = "done" => (g_devs = << >> /\ task_pool = PoolSize)

\* Two devices are registered and more tasks are out than one device can
\* hold.
C19_Witness ==
  /\ Len(g_devs) = 2
  /\ TasksOut > g_queue_depth
  /\ TasksOut = g_devs[1].current_queue_depth + g_devs[2].current_queue_depth

\* C20: no read call is made for a device that is marked removed, the reads
\* of the initial burst included: a device marked removed while still new
\* has had no read call.
C20_NoReadAfterRemoved ==
  /\ last_read # NoRead =>
       \A i \in 1..Len(g_devs) :
         g_devs[i].id = last_read.dev => ~g_devs[i].is_removed
  /\ \A i \in 1..Len(g_devs) :
       (g_devs[i].is_removed /\ g_devs[i].is_new) => nvme[g_devs[i].id].calls = 0

====
